---- MODULE Spec2Model ----
(***************************************************************************)
(* FitbitApi (src/unnamed/part_005): the response classifier handleData    *)
(* with its recursive token refresh, and the page generator built on it.   *)
(*                                                                         *)
(* A handleData call is a stack of frames, one per recursion level; every  *)
(* `await` of the code is a step of its own.  The transport (fetch behind  *)
(* rest-api-handler) and the refresh callback getToken are the             *)
(* environment: each of their outcomes is a nondeterministic choice.       *)
(***************************************************************************)
EXTENDS Integers, Sequences, FiniteSets, TLC

VARIABLES
    accessToken,    \* FitbitApi.accessToken
    api,            \* the default headers of FitbitApi.api
    getToken,       \* TRUE iff the constructor was given a refresh callback
    calls,          \* the top-level handleData calls, by call id
    pages,          \* the server's pages of the walked collection
    gen,            \* the async generator made by pageGenerator
    pulls,          \* number of .next() calls the consumer has made
    produced,       \* the results handed to the consumer, oldest first
    now,            \* the clock: the current instant in the local time zone
    op              \* the last call of a utility or an endpoint method

vars == <<accessToken, api, getToken, calls, pages, gen, pulls, produced, now, op>>

clientVars == <<accessToken, api, getToken>>
genVars == <<pages, gen, pulls, produced>>
utilVars == <<now, op>>

----------------------------------------------------------------------------
(* Bounds of the model *)

\* longest `errors` list a response body carries
MaxErrors == 2

\* most pages a walked collection has
MaxPages == 3

\* most items one page carries
MaxItems == 2

\* most .next() calls the consumer makes
MaxPulls == 4

----------------------------------------------------------------------------
(* Values *)

\* handleData: `nRecur < 2`
RetryLimit == 2

\* the JSON value null (and `json = null as any`)
NullJson == [null |-> TRUE]

\* errorType values: the two that trigger a refresh, and one that does not
ErrorTypes == {"expired_token", "invalid_token", "validation"}

RefreshTypes == {"expired_token", "invalid_token"}

\* the token the client is constructed with
InitialToken == "token0"

\* getToken() resolves with a token other than the one in use
NewToken(token) ==
    CASE token = "token0" -> "token1"
      [] token = "token1" -> "token2"
      [] OTHER            -> "token0"

Bearer(token) == <<"Bearer", token>>

RECURSIVE SeqsUpTo(_, _)
SeqsUpTo(S, n) ==
    IF n = 0 THEN {<<>>}
    ELSE LET shorter == SeqsUpTo(S, n - 1)
         IN  shorter \cup {Append(s, x) : s \in {t \in shorter : Len(t) = n - 1}, x \in S}

\* FitbitError bodies: { errors: [{ errorType, message }, ...] }
ErrorJsons ==
    {[errors |-> es] :
        es \in SeqsUpTo({[errorType |-> t] : t \in ErrorTypes}, MaxErrors)}

\* payloads of a single-resource endpoint
DataJsons == {[value |-> "dataA"], [value |-> "dataB"]}

Unparsable == [parsable |-> FALSE]

Parsed(json) == [parsable |-> TRUE, json |-> json]

\* Response.ok
ok(response) == response.status >= 200 /\ response.status <= 299

\* Response.headers.entries(): header names arrive lowercased
HeaderEntries(id, body) ==
    << <<"content-type", IF body.parsable THEN "application/json" ELSE "text/html">>,
       <<"x-request-id", id>> >>

Response(id, status, body) ==
    [id |-> id, status |-> status, body |-> body, headers |-> HeaderEntries(id, body)]

\* a dataCall of a single-resource endpoint, and of the generator's page `url`
ResourceCall == [kind |-> "resource"]

PageCall(url) == [kind |-> "page", url |-> url]

\* the status codes the transport answers with: success, failure, and the
\* internal server error handleData singles out
Statuses == {200, 401, 500}

\* the bodies of a single-resource endpoint: no JSON, null, a payload, or a
\* FitbitError
ResourceBodies ==
    {Unparsable} \cup {Parsed(j) : j \in {NullJson} \cup DataJsons \cup ErrorJsons}

\* what the transport may answer to a single-resource call
ResourceResponses(id) ==
    {Response(id, s, b) : s \in Statuses, b \in ResourceBodies}

----------------------------------------------------------------------------
(* handleData *)

\* hasKey of @giveback007/util-lib: an object that owns the key
hasKey(obj, key) == obj # NullJson /\ key \in DOMAIN obj

\* `for (const [key, val] of iter) headers[key] = val`
headers(response) ==
    LET entries == response.headers
        keys == {entries[i][1] : i \in 1..Len(entries)}
        last(k) == CHOOSE i \in 1..Len(entries) :
                      /\ entries[i][1] = k
                      /\ \A j \in (i + 1)..Len(entries) : entries[j][1] # k
    IN  [k \in keys |-> entries[last(k)][2]]

\* `json` after the try/catch around response.json()
json(response) ==
    IF response.body.parsable THEN response.body.json ELSE NullJson

\* Unhandled without `code !== 500`: every unparsable failure is thrown
UnhandledAnyFailure(response) ==
    ~response.body.parsable /\ ~ok(response)

\* the catch of response.json(): `if (!response.ok) ... if (code !== 500) throw`
Unhandled(response) ==
    ~response.body.parsable /\ ~ok(response) /\ response.status # 500

\* `!response.ok || (json && hasKey(json, 'errors'))`
isError(response) ==
    ~ok(response) \/ (json(response) # NullJson /\ hasKey(json(response), "errors"))

\* ErrorResult with the SUCCESS variant's field filled in as well
ErrorResultWithData(response) ==
    [type      |-> "ERROR",
     isSuccess |-> FALSE,
     code      |-> response.status,
     error     |-> IF hasKey(json(response), "errors") THEN json(response) ELSE NullJson,
     data      |-> json(response),
     response  |-> response,
     headers   |-> headers(response)]

\* `let error = null; if (hasKey(json, 'errors')) error = json`
ErrorResult(response) ==
    [type      |-> "ERROR",
     isSuccess |-> FALSE,
     code      |-> response.status,
     error     |-> IF hasKey(json(response), "errors") THEN json(response) ELSE NullJson,
     response  |-> response,
     headers   |-> headers(response)]

SuccessResult(response) ==
    [type      |-> "SUCCESS",
     isSuccess |-> TRUE,
     code      |-> response.status,
     data      |-> json(response),
     response  |-> response,
     headers   |-> headers(response)]

NoResult == [type |-> "NONE"]

\* shouldRefresh with the bound off by one: `nRecur <= 2`
shouldRefreshOffByOne(err, nRecur) ==
    err \in RefreshTypes /\ getToken /\ nRecur <= RetryLimit

\* `(err === "expired_token" || err === "invalid_token") && this.getToken && nRecur < 2`
shouldRefresh(err, nRecur) ==
    err \in RefreshTypes /\ getToken /\ nRecur < RetryLimit

IdleCall ==
    [pc           |-> "idle",      \* idle, dataCall, json, getToken, done
     dataCall     |-> ResourceCall,
     frames       |-> <<>>,        \* the response of each recursion level
     sent         |-> <<>>,        \* the Authorization header of each request
     nGetToken    |-> 0,           \* getToken() invocations
     nRejected    |-> 0,           \* getToken() invocations that threw
     installed    |-> <<>>,        \* the tokens given to setAccessToken
     logged       |-> 0,           \* console.error(err) of the catch
     tokenAtStart |-> InitialToken,
     outcome      |-> "pending",   \* pending, returned, thrown
     result       |-> NoResult,
     error        |-> ""]

\* firstErrorType reading the last entry of the list instead of the first
lastErrorType(fitbitError) == fitbitError.errors[Len(fitbitError.errors)].errorType

\* `const { errorType: err } = json.errors[0]`
firstErrorType(fitbitError) == fitbitError.errors[1].errorType

\* nRecur of the frame that is running
nRecur(call) == Len(call.frames) - 1

\* `dataCall()`: the request leaves with the default headers of that moment
Issue(call, authorization) ==
    [call EXCEPT !.pc = "dataCall", !.sent = Append(@, authorization)]

\* Return reporting the first attempt's failure after a retry
ReturnFirstAttempt(call, result) ==
    [call EXCEPT !.pc = "done", !.outcome = "returned",
                 !.result = IF Len(call.frames) > 1 THEN ErrorResult(call.frames[1])
                            ELSE result]

\* the top-level call returns `result` (every frame below `return await`s it)
Return(call, result) ==
    [call EXCEPT !.pc = "done", !.outcome = "returned", !.result = result]

\* an exception leaves frame number `depth`: the frame above awaits it inside
\* its try, logs it and returns its own ERROR; the first frame has no catcher
Throw(call, depth, error) ==
    IF depth >= 2
    THEN Return([call EXCEPT !.logged = @ + 1], ErrorResult(call.frames[depth - 1]))
    ELSE [call EXCEPT !.pc = "done", !.outcome = "thrown", !.error = error]

\* handleData from `json = await response.json()` to its next await or its end
Classify(call) ==
    LET response == call.frames[Len(call.frames)]
        depth == Len(call.frames)
    IN  IF Unhandled(response) THEN Throw(call, depth, "Unhandled Error")
        ELSE IF ~isError(response) THEN Return(call, SuccessResult(response))
        ELSE IF ~hasKey(json(response), "errors") THEN Return(call, ErrorResult(response))
        ELSE IF json(response).errors = <<>>
             THEN \* `const { errorType: err } = json.errors[0]` of undefined
                  Throw(call, depth, "TypeError")
        ELSE IF shouldRefresh(firstErrorType(json(response)), nRecur(call))
             THEN [call EXCEPT !.pc = "getToken", !.nGetToken = @ + 1]
        ELSE Return(call, ErrorResult(response))

\* NewCall sending the header the client was constructed with
NewCallInitialHeader(dataCall) ==
    Issue([IdleCall EXCEPT !.dataCall = dataCall, !.tokenAtStart = accessToken],
          Bearer(InitialToken))

\* handleData(dataCall) up to its first await: `dataCall()` is issued at once
NewCall(dataCall) ==
    Issue([IdleCall EXCEPT !.dataCall = dataCall, !.tokenAtStart = accessToken],
          api.Authorization)

\* a caller invokes handleData(dataCall) on call slot c
Invoke(c, dataCall) ==
    calls' = [calls EXCEPT ![c] = NewCall(dataCall)]

\* an endpoint method calls handleData
HandleData(c) ==
    /\ calls[c].pc = "idle"
    /\ Invoke(c, ResourceCall)
    /\ UNCHANGED <<utilVars, clientVars, genVars>>

\* Pagination.next of the last page: the empty string
EmptyUrl == 0

\* the server's answer to a page request: the page, or a failure; FitbitError
\* bodies come with 401
PageResponses(url, id) ==
    {Response(id, 200, Parsed(pages[url])), Response(id, 200, Unparsable),
     Response(id, 500, Unparsable), Response(id, 401, Unparsable),
     Response(id, 401, Parsed([errors |-> <<[errorType |-> "expired_token"]>>])),
     Response(id, 401, Parsed([errors |-> <<[errorType |-> "validation"]>>]))}

\* what the transport answers to the request `id` of `dataCall`
Responses(dataCall, id) ==
    IF dataCall.kind = "resource"
    THEN ResourceResponses(id)
    ELSE PageResponses(dataCall.url, id)

\* `const response = await dataCall()` resolves
DataCallResolved(c) ==
    /\ calls[c].pc = "dataCall"
    /\ \E response \in Responses(calls[c].dataCall, Len(calls[c].sent)) :
          calls' = [calls EXCEPT ![c] =
                      [@ EXCEPT !.pc = "json", !.frames = Append(@, response)]]
    /\ UNCHANGED <<utilVars, clientVars, genVars>>

\* `await dataCall()` rejects (no response at all)
DataCallRejected(c) ==
    /\ calls[c].pc = "dataCall"
    /\ calls' = [calls EXCEPT ![c] = Throw(@, Len(@.frames) + 1, "NetworkError")]
    /\ UNCHANGED <<utilVars, clientVars, genVars>>

\* `await response.json()` settles and the frame runs to its next await
Json(c) ==
    /\ calls[c].pc = "json"
    /\ calls' = [calls EXCEPT ![c] = Classify(@)]
    /\ UNCHANGED <<utilVars, clientVars, genVars>>

\* setAccessToken leaving the default header as it was
setAccessTokenFieldOnly(token) ==
    /\ accessToken' = token
    /\ api' = api

\* setAccessToken
setAccessToken(token) ==
    /\ accessToken' = token
    /\ api' = [api EXCEPT !.Authorization = Bearer(token)]

\* GetTokenResolved that repeats the call without `this.setAccessToken(token)`
GetTokenResolvedNoInstall(c) ==
    /\ calls[c].pc = "getToken"
    /\ calls' = [calls EXCEPT ![c] = Issue(@, api.Authorization)]
    /\ UNCHANGED <<utilVars, clientVars, genVars>>

\* GetTokenResolved repeating the call before it installs the token
GetTokenResolvedIssueFirst(c) ==
    /\ calls[c].pc = "getToken"
    /\ LET token == NewToken(accessToken)
       IN  /\ calls' = [calls EXCEPT ![c] =
                          Issue([@ EXCEPT !.installed = Append(@, token)],
                                api.Authorization)]
           /\ setAccessToken(token)
    /\ UNCHANGED <<utilVars, getToken, genVars>>

\* `await this.getToken()` resolves: install the token, recurse with nRecur + 1
GetTokenResolved(c) ==
    /\ calls[c].pc = "getToken"
    /\ LET token == NewToken(accessToken)
       IN  /\ setAccessToken(token)
           /\ calls' = [calls EXCEPT ![c] =
                          Issue([@ EXCEPT !.installed = Append(@, token)],
                                api'.Authorization)]
    /\ UNCHANGED <<utilVars, getToken, genVars>>

\* GetTokenRejected with `await this.getToken()` outside the try: the
\* callback's error leaves the frame
GetTokenRejectedUncaught(c) ==
    /\ calls[c].pc = "getToken"
    /\ calls' = [calls EXCEPT ![c] =
                   Throw([@ EXCEPT !.nRejected = @ + 1], Len(@.frames), "RefreshError")]
    /\ UNCHANGED <<utilVars, clientVars, genVars>>

\* `await this.getToken()` throws: caught by the frame's own catch, which logs
\* and falls through to `return { type: 'ERROR', ... }`
GetTokenRejected(c) ==
    /\ calls[c].pc = "getToken"
    /\ calls' = [calls EXCEPT ![c] =
                   Return([@ EXCEPT !.nRejected = @ + 1, !.logged = @ + 1],
                          ErrorResult(@.frames[Len(@.frames)]))]
    /\ UNCHANGED <<utilVars, clientVars, genVars>>

----------------------------------------------------------------------------
(* pageGenerator *)

\* no generator yet
NoGen ==
    [pc           |-> "none",   \* none, firstFetch, rejected, start, yield1,
                                \* fetch, yield2, completed
     startingUrl  |-> EmptyUrl,
     dataKey      |-> "",
     lastResponse |-> NoResult,
     allData      |-> <<>>,
     totalCalls   |-> 0,
     nextUrl      |-> EmptyUrl,
     requested    |-> <<>>]     \* the urls handleData was called for

Undefined == [undefined |-> TRUE]

NoIter == [none |-> TRUE]

\* what a .next() promise settles with
IterResult(value, done) == [value |-> value, done |-> done]

IterThrew(error) == [threw |-> error]

\* `const getObj = () => ({ lastResponse, allData, totalCalls })`
getObj(g) ==
    [lastResponse |-> g.lastResponse, allData |-> g.allData, totalCalls |-> g.totalCalls]

\* GenReturn handing its state out as an intermediate value
GenReturnNotDone(g) ==
    [gen |-> [g EXCEPT !.pc = "completed"], result |-> IterResult(getObj(g), FALSE)]

\* `return getObj()`
GenReturn(g) ==
    [gen |-> [g EXCEPT !.pc = "completed"], result |-> IterResult(getObj(g), TRUE)]

\* `yield getObj()`, suspending at `at`
GenYield(g, at) ==
    [gen |-> [g EXCEPT !.pc = at], result |-> IterResult(getObj(g), FALSE)]

\* an exception leaves the generator body
GenThrow(g, error) ==
    [gen |-> [g EXCEPT !.pc = "completed"], result |-> IterThrew(error)]

\* appendPage putting the new page in front of the accumulated items
prependPage(allData, data, dataKey) == data[dataKey] \o allData

\* `allData = [...allData, ...(lastResponse.data as any)[dataKey]]`
appendPage(allData, data, dataKey) == allData \o data[dataKey]

\* `while (nextUrl)`: fetch the next page, or fall out to `return getObj()`
LoopHead(g) ==
    IF g.nextUrl # EmptyUrl
    THEN [gen |-> [g EXCEPT !.pc = "fetch", !.requested = Append(@, g.nextUrl)],
          result |-> NoIter]
    ELSE GenReturn(g)

\* GenStart yielding a failing first state before returning it
GenStartYieldsError(g) ==
    IF g.lastResponse.isSuccess /\ g.lastResponse.data = NullJson
    THEN GenThrow(g, "TypeError")
    ELSE LET g1 == [g EXCEPT !.allData = IF g.lastResponse.isSuccess
                                         THEN g.lastResponse.data[g.dataKey]
                                         ELSE <<>>,
                             !.totalCalls = 1]
         IN  IF g1.lastResponse.type = "ERROR" THEN GenYield(g1, "yield2")
             ELSE GenYield(g1, "yield1")

\* the generator body from its start to the first yield or return
GenStart(g) ==
    IF g.lastResponse.isSuccess /\ g.lastResponse.data = NullJson
    THEN GenThrow(g, "TypeError")
    ELSE LET g1 == [g EXCEPT !.allData = IF g.lastResponse.isSuccess
                                         THEN g.lastResponse.data[g.dataKey]
                                         ELSE <<>>,
                             !.totalCalls = 1]
         IN  IF g1.lastResponse.type = "ERROR" THEN GenReturn(g1)
             ELSE GenYield(g1, "yield1")

\* Resume answering a completed generator with its terminal state once more
ResumeReturnsAgain(g) ==
    CASE g.pc = "start"  -> GenStart(g)
      [] g.pc = "yield1" ->
            LoopHead([g EXCEPT !.nextUrl = g.lastResponse.data.pagination.next])
      [] g.pc = "yield2" -> LoopHead(g)
      [] OTHER           -> GenReturn(g)

\* Resume taking the starting url for the second fetch
ResumeFromStart(g) ==
    CASE g.pc = "start"  -> GenStart(g)
      [] g.pc = "yield1" -> LoopHead([g EXCEPT !.nextUrl = g.startingUrl])
      [] g.pc = "yield2" -> LoopHead(g)
      [] OTHER           -> [gen |-> g, result |-> IterResult(Undefined, TRUE)]

\* a .next() request reaches the suspended generator
Resume(g) ==
    CASE g.pc = "start"  -> GenStart(g)
      [] g.pc = "yield1" ->
            LoopHead([g EXCEPT !.nextUrl = g.lastResponse.data.pagination.next])
      [] g.pc = "yield2" -> LoopHead(g)
      [] OTHER           -> [gen |-> g, result |-> IterResult(Undefined, TRUE)]

\* AfterFetch yielding a failing state instead of returning it
AfterFetchYieldsError(g, call) ==
    IF call.outcome = "thrown" THEN GenThrow(g, call.error)
    ELSE LET g1 == [g EXCEPT !.lastResponse = call.result, !.totalCalls = @ + 1]
         IN  IF g1.lastResponse.type = "ERROR" THEN GenYield(g1, "yield2")
             ELSE IF g1.lastResponse.data = NullJson THEN GenThrow(g1, "TypeError")
             ELSE LET g2 == [g1 EXCEPT
                               !.nextUrl = g1.lastResponse.data.pagination.next,
                               !.allData = appendPage(@, g1.lastResponse.data, g1.dataKey)]
                  IN  IF g2.nextUrl # EmptyUrl THEN GenYield(g2, "yield2")
                      ELSE LoopHead(g2)

\* AfterFetch counting the transport attempts of the fetch in totalCalls
AfterFetchCountsAttempts(g, call) ==
    IF call.outcome = "thrown" THEN GenThrow(g, call.error)
    ELSE LET g1 == [g EXCEPT !.lastResponse = call.result,
                             !.totalCalls = @ + Len(call.sent)]
         IN  IF g1.lastResponse.type = "ERROR" THEN GenReturn(g1)
             ELSE IF g1.lastResponse.data = NullJson THEN GenThrow(g1, "TypeError")
             ELSE LET g2 == [g1 EXCEPT
                               !.nextUrl = g1.lastResponse.data.pagination.next,
                               !.allData = appendPage(@, g1.lastResponse.data, g1.dataKey)]
                  IN  IF g2.nextUrl # EmptyUrl THEN GenYield(g2, "yield2")
                      ELSE LoopHead(g2)

\* the loop body after `lastResponse = await self.handleData(...)` settles
AfterFetch(g, call) ==
    IF call.outcome = "thrown" THEN GenThrow(g, call.error)
    ELSE LET g1 == [g EXCEPT !.lastResponse = call.result, !.totalCalls = @ + 1]
         IN  IF g1.lastResponse.type = "ERROR" THEN GenReturn(g1)
             ELSE IF g1.lastResponse.data = NullJson THEN GenThrow(g1, "TypeError")
             ELSE LET g2 == [g1 EXCEPT
                               !.nextUrl = g1.lastResponse.data.pagination.next,
                               !.allData = appendPage(@, g1.lastResponse.data, g1.dataKey)]
                  IN  IF g2.nextUrl # EmptyUrl THEN GenYield(g2, "yield2")
                      ELSE LoopHead(g2)

\* Drain running the generator on past its yields without a request
RECURSIVE DrainUnrequested(_, _, _)
DrainUnrequested(g, results, requests) ==
    IF g.pc \in {"start", "yield1", "yield2"}
    THEN LET r == Resume(g)
         IN  IF r.gen.pc = "fetch" THEN [gen |-> r.gen, produced |-> results]
             ELSE DrainUnrequested(r.gen, Append(results, r.result), requests)
    ELSE [gen |-> g, produced |-> results]

\* Drain starting the fetch again for a .next() that arrives during a fetch
RECURSIVE DrainDuringFetch(_, _, _)
DrainDuringFetch(g, results, requests) ==
    IF Len(results) < requests /\ g.pc = "fetch"
    THEN [gen |-> LoopHead(g).gen, produced |-> results]
    ELSE IF Len(results) < requests /\ g.pc \in {"start", "yield1", "yield2", "completed"}
    THEN LET r == Resume(g)
         IN  IF r.gen.pc = "fetch" THEN [gen |-> r.gen, produced |-> results]
             ELSE DrainDuringFetch(r.gen, Append(results, r.result), requests)
    ELSE [gen |-> g, produced |-> results]

\* the generator serves its queued .next() requests, oldest first, until it
\* awaits a fetch or no request is left
RECURSIVE Drain(_, _, _)
Drain(g, results, requests) ==
    IF Len(results) < requests /\ g.pc \in {"start", "yield1", "yield2", "completed"}
    THEN LET r == Resume(g)
         IN  IF r.gen.pc = "fetch" THEN [gen |-> r.gen, produced |-> results]
             ELSE Drain(r.gen, Append(results, r.result), requests)
    ELSE [gen |-> g, produced |-> results]

\* the generator's handleData calls run in call slot 1
GenCall == 1

\* the state the generator and its handleData call are left in
Settle(d) ==
    /\ gen' = d.gen
    /\ produced' = d.produced
    /\ calls' = IF d.gen.pc = "fetch" /\ Len(d.gen.requested) > Len(gen.requested)
                THEN [calls EXCEPT ![GenCall] = NewCall(PageCall(d.gen.nextUrl))]
                ELSE calls

\* pageGenerator(startingUrl, dataKey) up to `await this.handleData(...)`
PageGenerator ==
    /\ gen.pc = "none"
    /\ gen' = [gen EXCEPT !.pc = "firstFetch", !.startingUrl = 1, !.dataKey = "sleep",
                          !.requested = <<1>>]
    /\ Invoke(GenCall, PageCall(1))
    /\ UNCHANGED <<utilVars, clientVars, pages, pulls, produced>>

\* the first handleData settles: pageGenerator returns the generator, or
\* rejects when handleData threw
FirstFetched ==
    /\ gen.pc = "firstFetch"
    /\ calls[GenCall].pc = "done"
    /\ gen' = IF calls[GenCall].outcome = "thrown"
              THEN [gen EXCEPT !.pc = "rejected"]
              ELSE [gen EXCEPT !.pc = "start", !.lastResponse = calls[GenCall].result]
    /\ UNCHANGED <<utilVars, clientVars, calls, pages, pulls, produced>>

\* the consumer calls .next(): the request is queued, and served at once when
\* the generator is suspended
Pull ==
    /\ gen.pc \in {"start", "yield1", "yield2", "fetch", "completed"}
    /\ pulls < MaxPulls
    /\ pulls' = pulls + 1
    /\ Settle(Drain(gen, produced, pulls + 1))
    /\ UNCHANGED <<utilVars, clientVars, pages>>

\* the handleData call of the loop settles and the generator runs on
PageFetched ==
    /\ gen.pc = "fetch"
    /\ calls[GenCall].pc = "done"
    /\ LET a == AfterFetch(gen, calls[GenCall])
       IN  Settle(Drain(a.gen, Append(produced, a.result), pulls))
    /\ UNCHANGED <<utilVars, clientVars, pages, pulls>>

----------------------------------------------------------------------------
(* Dates and url parameters *)

\* a local calendar day and the hours it lasts
Day(y, m, d, hours) == [y |-> y, m |-> m, d |-> d, hours |-> hours]

\* stretches of the local calendar, in a zone with daylight saving time:
\* around a new year, around the day the clocks go back (25 hours) and
\* around the day they go forward (23 hours)
Calendar ==
    [newYear       |-> <<Day(2021, 12, 30, 24), Day(2021, 12, 31, 24),
                         Day(2022, 1, 1, 24), Day(2022, 1, 2, 24)>>,
     fallBack      |-> <<Day(2021, 10, 30, 24), Day(2021, 10, 31, 25),
                         Day(2021, 11, 1, 24)>>,
     springForward |-> <<Day(2021, 3, 27, 24), Day(2021, 3, 28, 23),
                         Day(2021, 3, 29, 24)>>]

\* the hour at which day k of a stretch starts, counted from the stretch's start
RECURSIVE StartOf(_, _)
StartOf(cal, k) == IF k = 1 THEN 0 ELSE StartOf(cal, k - 1) + Calendar[cal][k - 1].hours

\* a Date holding a time value, hour t of a stretch, and one holding NaN
Date(cal, t) == [valid |-> TRUE, cal |-> cal, t |-> t]

InvalidDate == [valid |-> FALSE]

\* the instants of the calendar, hour by hour
Instants ==
    UNION {{Date(cal, t) : t \in 0..(StartOf(cal, Len(Calendar[cal]) + 1) - 1)} :
              cal \in DOMAIN Calendar}

\* the day of its stretch each instant falls on
Days ==
    [dt \in Instants |->
        CHOOSE k \in 1..Len(Calendar[dt.cal]) :
            /\ StartOf(dt.cal, k) <= dt.t
            /\ dt.t < StartOf(dt.cal, k) + Calendar[dt.cal][k].hours]

\* the day of its stretch a Date falls on
DayOf(dt) == Days[dt]

\* Date.getHours(): the wall clock repeats hour 2 when the clocks go back
\* and skips it when they go forward
Hours ==
    [dt \in Instants |->
        LET k == DayOf(dt)
            h == dt.t - StartOf(dt.cal, k)
            hours == Calendar[dt.cal][k].hours
        IN  IF hours = 25 /\ h > 2 THEN h - 1
            ELSE IF hours = 23 /\ h >= 2 THEN h + 1
            ELSE h]

getHours(dt) == Hours[dt]

\* `getDayStartEnd(t).start` of @giveback007/util-lib: local midnight of
\* the day of t
getDayStart(dt) == Date(dt.cal, StartOf(dt.cal, DayOf(dt)))

\* `days(n)` of @giveback007/util-lib: n times 24 hours
days(n) == n * 24

\* JavaScript values given as AnyDate, by their runtime type
String(s) == [type |-> "string", value |-> [chars |-> s]]

Number(n) == [type |-> "number", value |-> n]

DateValue(dt) == [type |-> "Date", value |-> dt]

Object(o) == [type |-> "object", value |-> o]

\* a number that is an integer, and the number NaN
Num(n) == [n |-> n]

NaN == [nan |-> TRUE]

\* `anyDate === 'now'` and the like
is(anyDate, word) == anyDate.type = "string" /\ anyDate.value.chars = word

\* what a function call ends with
Returned(value) == [outcome |-> "returned", value |-> value]

Thrown(error) == [outcome |-> "thrown", error |-> error]

\* the time value a date string parses to (`new Date(string)`, dayjs(string));
\* NaN for a string that is no date
ParseTable ==
    [s \in {"2021-12-31", "2021-10-31T23:00", "2021-03-29"} |->
        CASE s = "2021-12-31"       -> [cal |-> "newYear", t |-> 24]
          [] s = "2021-10-31T23:00" -> [cal |-> "fallBack", t |-> 48]
          [] s = "2021-03-29"       -> [cal |-> "springForward", t |-> 47]]

parse(s) == IF s \in DOMAIN ParseTable THEN ParseTable[s] ELSE NaN

\* `new Date(value)` for a number or a string
newDate(anyDate) ==
    LET time == IF anyDate.type = "string" THEN parse(anyDate.value.chars) ELSE anyDate.value
    IN  IF time = NaN THEN InvalidDate ELSE Date(time.cal, time.t)

\* `o.m || 1`: the field, or the default when it is absent, 0 or NaN
orDefault(o, field, default) ==
    IF field \in DOMAIN o /\ o[field] # Num(0) /\ o[field] # NaN THEN o[field].n ELSE default

\* `new Date(o.y, (o.m || 1) - 1, o.d || 1, o.hr || 0, ...)`: the local date
\* and hour, looked up in the calendar; Invalid Date when the year is NaN
fromDateObj(o) ==
    IF "y" \notin DOMAIN o \/ o.y = NaN THEN InvalidDate
    ELSE LET m  == orDefault(o, "m", 1)
             d  == orDefault(o, "d", 1)
             hr == orDefault(o, "hr", 0)
             at == CHOOSE dt \in Instants :
                      LET day == Calendar[dt.cal][DayOf(dt)]
                      IN  /\ day.y = o.y.n /\ day.m = m /\ day.d = d
                          /\ getHours(dt) = hr
                          /\ \A u \in Instants :
                                ( u.cal = dt.cal /\ DayOf(u) = DayOf(dt)
                                  /\ getHours(u) = hr ) => dt.t <= u.t
         IN  at

\* `Date.now() - days(1)`, as a Date
dayBefore(dt) == Date(dt.cal, dt.t - days(1))

\* `x.setDate(x.getDate() - 1)`: the same wall-clock time on the calendar
\* day before; a time the clocks skip that day moves to the hour after
setDateBack(dt) ==
    LET k == DayOf(dt) - 1
        onDay == {u \in Instants : u.cal = dt.cal /\ DayOf(u) = k
                                   /\ getHours(u) >= getHours(dt)}
    IN  CHOOSE u \in onDay : \A v \in onDay : u.t <= v.t

\* toDate treating a Date that holds NaN as a date
toDateUnchecked(anyDate) ==
    Returned(CASE anyDate.type = "Date"      -> anyDate.value
               [] is(anyDate, "now")          -> now
               [] is(anyDate, "today")        -> getDayStart(now)
               [] is(anyDate, "yesterday")    -> getDayStart(dayBefore(now))
               [] anyDate.type \in {"number", "string"} -> newDate(anyDate)
               [] OTHER                       -> fromDateObj(anyDate.value))

\* the end of toDate: `if (dt.toDateString() === 'Invalid Date') throw ...`,
\* then `return dt`
checked(dt) == IF ~dt.valid THEN Thrown("Invalid Date") ELSE Returned(dt)

\* toDate of fitbit.api.ts
toDate(anyDate) ==
    checked(CASE anyDate.type = "Date"      -> anyDate.value
              [] is(anyDate, "now")          -> now
              [] is(anyDate, "today")        -> getDayStart(now)
              [] is(anyDate, "yesterday")    -> getDayStart(dayBefore(now))
              [] anyDate.type \in {"number", "string"} -> newDate(anyDate)
              [] OTHER                       -> fromDateObj(anyDate.value))

\* toDate of utils.general.ts
toDateUtils(anyDate) ==
    checked(CASE is(anyDate, "now")          -> now
              [] is(anyDate, "today")        -> getDayStart(now)
              [] is(anyDate, "yesterday")    -> getDayStart(setDateBack(now))
              [] anyDate.type = "object" /\ "y" \in DOMAIN anyDate.value
                                             -> fromDateObj(anyDate.value)
              [] anyDate.type = "Date"       -> anyDate.value
              [] OTHER                       -> newDate(anyDate))

\* minAppend(n, 2, '0'): n in two digits at least
minAppend(n) == IF n < 10 THEN <<0, n>> ELSE <<n \div 10, n % 10>>

\* [`yyyy-mm-dd`, `hh:mm`] of each instant, with getFullYear(), getMonth() + 1,
\* getDate(), getHours() and getMinutes() of its Date
DayTime ==
    [dt \in Instants |->
        LET day == Calendar[dt.cal][DayOf(dt)]
        IN  << <<day.y>> \o <<"-">> \o minAppend(day.m) \o <<"-">>
                  \o minAppend(day.d),
               minAppend(getHours(dt)) \o <<":">> \o minAppend(0) >>]

\* dayAndTime after `const dt = toDate(time)`: the two strings of dt, each
\* as its parts; nothing when toDate threw
dayAndTimeOf(r) ==
    IF r.outcome = "thrown" THEN r
    ELSE IF ~r.value.valid
         THEN \* the getters of an Invalid Date give NaN
              Returned(<< <<NaN, "-", NaN, "-", NaN>>, <<NaN, ":", NaN>> >>)
    ELSE Returned(DayTime[r.value])

\* dayAndTime(time): [`yyyy-mm-dd`, `hh:mm`] of toDate(time)
dayAndTime(time) == dayAndTimeOf(toDate(time))

\* the AnyDate values the utilities are tried with
AnyDates ==
    {String("now"), String("today"), String("yesterday"),
     String("2021-12-31"), String("2021-10-31T23:00"), String("not a date"),
     Number([cal |-> "newYear", t |-> 30]), Number(NaN),
     DateValue(Date("fallBack", 10)), DateValue(InvalidDate),
     Object([y |-> Num(2022)]),
     Object([y |-> Num(2021), m |-> Num(12), d |-> Num(31), hr |-> Num(5)]),
     Object([y |-> Num(2022), m |-> Num(0), d |-> Num(2)]),
     Object([y |-> NaN, m |-> Num(3)])}

\* the instants the clock is read at: every hour from the second day of a
\* stretch on
Clock == {dt \in Instants : DayOf(dt) >= 2}

\* the caller has called no utility and no endpoint method yet
NoOp == [name |-> "none"]

\* a call of `name` with `input` ended with `result`
Operation(name, input, result) == [name |-> name, input |-> input, result |-> result]

\* toDate(anyDate) of fitbit.api.ts is called
ToDate ==
    /\ op = NoOp
    /\ \E anyDate \in AnyDates : op' = Operation("toDate", anyDate, toDate(anyDate))
    /\ UNCHANGED <<clientVars, calls, genVars, now>>

\* toDate(anyDate) of utils.general.ts is called
ToDateUtils ==
    /\ op = NoOp
    /\ \E anyDate \in AnyDates :
          op' = Operation("toDateUtils", anyDate, toDateUtils(anyDate))
    /\ UNCHANGED <<clientVars, calls, genVars, now>>

\* dayAndTime(time) is called
DayAndTime ==
    /\ op = NoOp
    /\ \E time \in AnyDates : op' = Operation("dayAndTime", time, dayAndTime(time))
    /\ UNCHANGED <<clientVars, calls, genVars, now>>

\* the largest dictionary dictToUrlParams is tried with
MaxEntries == 3

\* a piece of text, as in a template string
Text(s) == [chars |-> s]

\* `nonValue(val)` of @giveback007/util-lib: null or undefined
nonValue(val) == val \in {NullJson, Undefined}

\* the forEach of dictToUrlParams from entry i on (the callback's index is i - 1)
RECURSIVE appendParams(_, _, _)
appendParams(entries, i, search) ==
    IF i > Len(entries) THEN search
    ELSE appendParams(entries, i + 1,
            IF ~nonValue(entries[i].val)
            THEN search \o <<Text(IF i - 1 # 0 THEN "&" ELSE "?"), Text(entries[i].key),
                             Text("="), entries[i].val>>
            ELSE search)

\* dictToUrlParams(dict), the dictionary given as its entries in key order
dictToUrlParams(dict) == appendParams(dict, 1, <<>>)

\* the dictionaries dictToUrlParams is tried with
Dicts ==
    UNION {[1..n -> {Num(1), Text("val2"), NullJson, Undefined}] : n \in 0..MaxEntries}

Keys == <<"key1", "key2", "key3", "key4">>

Entries(vals) == [i \in 1..Len(vals) |-> [key |-> Keys[i], val |-> vals[i]]]

\* dictToUrlParams(dict) is called
DictToUrlParams ==
    /\ op = NoOp
    /\ \E vals \in Dicts :
          op' = Operation("dictToUrlParams", Entries(vals),
                          Returned(dictToUrlParams(Entries(vals))))
    /\ UNCHANGED <<clientVars, calls, genVars, now>>

\* `this.url(version, namespace)` with the default user id '-'
url(version, namespace) == <<Text(version), Text("/user/-/")>> \o namespace

\* `opts.sort || 'asc'`
sortOr(opts, default) ==
    IF "sort" \in DOMAIN opts /\ opts.sort # Text("") THEN opts.sort ELSE Text(default)

\* getLogList from `const params = {...}` to the limit check, given what
\* dayAndTime(opts.afterDate) or dayAndTime(opts.beforeDate) ended with: the
\* entries of params, or what is thrown
paramsOf(opts, day) ==
    LET after == "afterDate" \in DOMAIN opts
        limit == orDefault(opts, "limit", 100)
    IN  IF day.outcome = "thrown" THEN day
        ELSE IF limit > 100 \/ limit < 1 THEN Thrown("Invalid limit")
        ELSE Returned(<<[key |-> "limit", val |-> Num(limit)],
                        [key |-> "offset", val |-> Num(orDefault(opts, "offset", 0))],
                        [key |-> IF after THEN "afterDate" ELSE "beforeDate",
                         val |-> [date |-> day.value[1]]],
                        [key |-> "sort",
                         val |-> sortOr(opts, IF after THEN "asc" ELSE "desc")]>>)

params(opts) ==
    paramsOf(opts, dayAndTime(IF "afterDate" \in DOMAIN opts
                              THEN opts.afterDate ELSE opts.beforeDate))

\* the call went on to pageGenerator(startingUrl, dataKey)
Called(startingUrl) == [outcome |-> "called", url |-> startingUrl]

\* getLogList(opts) of `endpoint`: build the url, then call pageGenerator,
\* which calls handleData at once; or throw before that
getLogList(endpoint, version, resource, dataKey, opts) ==
    \E r \in {params(opts)} :
        IF r.outcome = "thrown"
        THEN /\ op' = Operation(endpoint, opts, r)
             /\ UNCHANGED <<calls, gen>>
        ELSE /\ op' = Operation(endpoint, opts,
                         Called(url(version, <<Text(resource)>> \o dictToUrlParams(r.value))))
             /\ gen' = [gen EXCEPT !.pc = "firstFetch", !.startingUrl = 1,
                                   !.dataKey = dataKey, !.requested = <<1>>]
             /\ Invoke(GenCall, PageCall(1))

\* an absent option, or the option with a value
Option(field, values) == {<<>>} \cup {field :> v : v \in values}

\* the options getLogList is called with
LogListOpts ==
    {limit @@ offset @@ sort @@ date :
        limit  \in Option("limit", {Num(0), Num(1), Num(100), Num(101), Num(-1)}),
        offset \in Option("offset", {Num(0), Num(5)}),
        sort   \in Option("sort", {Text("asc"), Text("desc")}),
        date   \in {field :> v : field \in {"afterDate", "beforeDate"},
                                 v \in {String("today"), String("2021-12-31"),
                                        String("not a date"), Number(NaN)}}}

\* sleep.getLogList(opts) is called
SleepGetLogList ==
    /\ op = NoOp
    /\ gen.pc = "none"
    /\ \E opts \in LogListOpts :
          getLogList("sleep.getLogList", "1.2", "sleep/list.json", "sleep", opts)
    /\ UNCHANGED <<clientVars, pages, pulls, produced, now>>

\* activity.getLogList(opts) is called
ActivityGetLogList ==
    /\ op = NoOp
    /\ gen.pc = "none"
    /\ \E opts \in LogListOpts :
          getLogList("activity.getLogList", "1", "activities/list.json", "activities",
                     opts)
    /\ UNCHANGED <<clientVars, pages, pulls, produced, now>>

\* 2021-12-31 00:00
Epoch == Date("newYear", 24)

NoOperation ==
    /\ now = Epoch
    /\ op = NoOp

----------------------------------------------------------------------------
(* One handleData call on a new client *)

\* `new FitbitApi(accessToken, fitBitUserId, getToken?)`
Constructed ==
    /\ accessToken = InitialToken
    /\ api = [Authorization |-> Bearer(InitialToken)]
    /\ getToken \in BOOLEAN

NoGenerator ==
    /\ pages = <<>>
    /\ gen = NoGen
    /\ pulls = 0
    /\ produced = <<>>

Init ==
    /\ Constructed
    /\ calls = [c \in {1} |-> IdleCall]
    /\ NoGenerator
    /\ NoOperation

Next ==
    \/ \E c \in DOMAIN calls : HandleData(c)
    \/ \E c \in DOMAIN calls : DataCallResolved(c)
    \/ \E c \in DOMAIN calls : DataCallRejected(c)
    \/ \E c \in DOMAIN calls : Json(c)
    \/ \E c \in DOMAIN calls : GetTokenResolved(c)
    \/ \E c \in DOMAIN calls : GetTokenRejected(c)

Spec == Init /\ [][Next]_vars

----------------------------------------------------------------------------
(* One page walk on a new client *)

\* the items of page k: `size` distinct log entries
Items(k, size) == [i \in 1..size |-> <<k, i>>]

\* the pages of a collection whose page k has sizes[k] items; each page
\* points to the one after it, the last one to nothing
Collection(sizes) ==
    [k \in 1..Len(sizes) |->
        [pagination |-> [next |-> IF k < Len(sizes) THEN k + 1 ELSE EmptyUrl],
         sleep      |-> Items(k, sizes[k])]]

\* the sizes a page comes in: empty, a single entry, full
PageSizes == {0, 1, MaxItems}

Collections == {Collection(sizes) : sizes \in SeqsUpTo(PageSizes, MaxPages) \ {<<>>}}

InitPages ==
    /\ Constructed
    /\ calls = [c \in {GenCall} |-> IdleCall]
    /\ pages \in Collections
    /\ gen = NoGen
    /\ pulls = 0
    /\ produced = <<>>
    /\ NoOperation

NextPages ==
    \/ PageGenerator
    \/ FirstFetched
    \/ Pull
    \/ PageFetched
    \/ \E c \in DOMAIN calls : DataCallResolved(c)
    \/ \E c \in DOMAIN calls : DataCallRejected(c)
    \/ \E c \in DOMAIN calls : Json(c)
    \/ \E c \in DOMAIN calls : GetTokenResolved(c)
    \/ \E c \in DOMAIN calls : GetTokenRejected(c)

SpecPages == InitPages /\ [][NextPages]_vars

\* the same walk with everything that is awaited settling in the end: the
\* transport answers or fails each request, the body is read, the getToken
\* callback settles, each continuation runs, and the consumer keeps calling
\* .next() (up to MaxPulls times)
SpecPagesFair ==
    /\ SpecPages
    /\ WF_vars(FirstFetched)
    /\ WF_vars(Pull)
    /\ WF_vars(PageFetched)
    /\ WF_vars(\E c \in DOMAIN calls : DataCallResolved(c) \/ DataCallRejected(c))
    /\ WF_vars(\E c \in DOMAIN calls : Json(c))
    /\ WF_vars(\E c \in DOMAIN calls : GetTokenResolved(c) \/ GetTokenRejected(c))

----------------------------------------------------------------------------
(* Two handleData calls on one client *)

\* the call slots of the two callers
Callers == {1, 2}

\* a getLogList call reaches `this.handleData(() => this.api.get(startingUrl))`
\* of pageGenerator on call slot c
GetLogList(c) ==
    /\ calls[c].pc = "idle"
    /\ Invoke(c, PageCall(1))
    /\ UNCHANGED <<utilVars, clientVars, genVars>>

InitShared ==
    /\ Constructed
    /\ calls = [c \in Callers |-> IdleCall]
    /\ pages = Collection(<<1>>)
    /\ gen = NoGen
    /\ pulls = 0
    /\ produced = <<>>
    /\ NoOperation

NextShared ==
    \/ \E c \in DOMAIN calls : GetLogList(c)
    \/ \E c \in DOMAIN calls : DataCallResolved(c)
    \/ \E c \in DOMAIN calls : DataCallRejected(c)
    \/ \E c \in DOMAIN calls : Json(c)
    \/ \E c \in DOMAIN calls : GetTokenResolved(c)
    \/ \E c \in DOMAIN calls : GetTokenRejected(c)

SpecShared == InitShared /\ [][NextShared]_vars

----------------------------------------------------------------------------
(* The date utilities at any instant *)

InitDates ==
    /\ Constructed
    /\ calls = [c \in {1} |-> IdleCall]
    /\ NoGenerator
    /\ now \in Clock
    /\ op = NoOp

NextDates ==
    \/ ToDate
    \/ ToDateUtils
    \/ DayAndTime

SpecDates == InitDates /\ [][NextDates]_vars

----------------------------------------------------------------------------
(* One call of a utility or of getLogList on a new client *)

InitApi ==
    /\ Constructed
    /\ calls = [c \in {GenCall} |-> IdleCall]
    /\ pages = Collection(<<1>>)
    /\ gen = NoGen
    /\ pulls = 0
    /\ produced = <<>>
    /\ NoOperation

NextApi ==
    \/ ToDate
    \/ ToDateUtils
    \/ DayAndTime
    \/ DictToUrlParams
    \/ SleepGetLogList
    \/ ActivityGetLogList
    \/ FirstFetched
    \/ \E c \in DOMAIN calls : DataCallResolved(c)
    \/ \E c \in DOMAIN calls : DataCallRejected(c)
    \/ \E c \in DOMAIN calls : Json(c)
    \/ \E c \in DOMAIN calls : GetTokenResolved(c)
    \/ \E c \in DOMAIN calls : GetTokenRejected(c)

SpecApi == InitApi /\ [][NextApi]_vars

----------------------------------------------------------------------------
(* Two handleData calls on a client whose owner sets the token *)

\* the tokens in use
Tokens == {"token0", "token1", "token2"}

\* the owner of the client calls setAccessToken(token)
SetAccessToken ==
    /\ \E token \in Tokens : setAccessToken(token)
    /\ UNCHANGED <<utilVars, getToken, calls, genVars>>

NextClient ==
    \/ SetAccessToken
    \/ NextShared

SpecClient == InitShared /\ [][NextClient]_vars

----------------------------------------------------------------------------
(* Properties of handleData *)

Done(c) == calls[c].pc = "done"

\* every dataCall() of the call was answered with a response
Answered(c) == Len(calls[c].frames) = Len(calls[c].sent)

\* the errorType of the first entry of a response's errors list, if it has one
Kind(response) ==
    IF hasKey(json(response), "errors") /\ json(response).errors # <<>>
    THEN json(response).errors[1].errorType
    ELSE "none"

\* the response parses, or fails to parse without being fatal, and is no error
Succeeds(response) ==
    /\ ok(response)
    /\ ~(response.body.parsable /\ "errors" \in DOMAIN response.body.json)

\* a failure whose first error asks for a new token
AsksRefresh(response) == Kind(response) \in {"expired_token", "invalid_token"}

\* C1. Refresh retry bound: a call never makes more than 3 transport calls or
\* 2 token installs; with a refresh callback that always succeeds and a
\* transport that always answers with an "expired_token" failure, the call
\* ends after exactly 3 transport calls and 2 installs, returning the ERROR
\* of the last response.
C1_RefreshRetryBound ==
    \A c \in DOMAIN calls :
        LET call == calls[c] IN
        /\ Len(call.sent) <= 3
        /\ Len(call.installed) <= 2
        /\ call.nGetToken <= 2
        /\ ( /\ Done(c) /\ getToken /\ call.nRejected = 0 /\ Answered(c)
             /\ \A i \in 1..Len(call.frames) : Kind(call.frames[i]) = "expired_token" )
           => /\ Len(call.sent) = 3
              /\ call.outcome = "returned"
              /\ call.result.type = "ERROR"
              /\ call.result.response = call.frames[3]
              /\ call.result.error = call.frames[3].body.json
              /\ Len(call.installed) = 2
              /\ api.Authorization = Bearer(call.installed[2])

C1_Witness ==
    \E c \in DOMAIN calls :
        /\ Done(c) /\ getToken /\ calls[c].nRejected = 0
        /\ Len(calls[c].frames) = 3
        /\ \A i \in 1..3 : Kind(calls[c].frames[i]) = "expired_token"
        /\ calls[c].result.type = "ERROR"

\* C2. Refresh success path: when the first response asks for a refresh
\* ("invalid_token" or "expired_token" first), the callback resolves and the
\* repeated call succeeds, handleData returns SUCCESS with the payload of the
\* second response, after exactly one token install.
C2_RefreshSuccess ==
    \A c \in DOMAIN calls :
        LET call == calls[c] IN
        ( /\ Done(c) /\ getToken /\ call.nRejected = 0 /\ Answered(c)
          /\ Len(call.frames) >= 1 /\ AsksRefresh(call.frames[1])
          /\ Len(call.frames) >= 2 => Succeeds(call.frames[2]) )
        => /\ Len(call.frames) = 2
           /\ call.outcome = "returned"
           /\ call.result.type = "SUCCESS"
           /\ call.result.isSuccess
           /\ call.result.response = call.frames[2]
           /\ call.result.data = json(call.frames[2])
           /\ call.result.code = call.frames[2].status
           /\ call.installed = <<NewToken(call.tokenAtStart)>>
           /\ accessToken = NewToken(call.tokenAtStart)
           /\ api.Authorization = Bearer(accessToken)
           /\ call.sent = <<Bearer(call.tokenAtStart), Bearer(accessToken)>>

C2_Witness ==
    \E c \in DOMAIN calls :
        /\ Done(c)
        /\ Len(calls[c].frames) = 2
        /\ Kind(calls[c].frames[1]) = "invalid_token"
        /\ calls[c].frames[2].body = Parsed([value |-> "dataB"])
        /\ calls[c].result.type = "SUCCESS"
        /\ Len(calls[c].installed) = 1

\* C3. Refresh failure: when getToken throws, handleData does not throw; it
\* returns the ERROR built from the response that asked for the refresh, no
\* transport call follows, and no token is installed by that attempt.
C3_RefreshFailure ==
    \A c \in DOMAIN calls :
        LET call == calls[c]
            n == Len(call.frames)
        IN  /\ call.nRejected <= 1
            /\ call.nRejected = 1
               => /\ Done(c)
                  /\ call.outcome = "returned"
                  /\ call.result.type = "ERROR"
                  /\ call.result.response = call.frames[n]
                  /\ call.result.code = call.frames[n].status
                  /\ call.result.error = call.frames[n].body.json
                  /\ AsksRefresh(call.frames[n])
                  /\ Len(call.sent) = n
                  /\ Len(call.installed) = call.nGetToken - 1
                  /\ accessToken = IF n = 1 THEN call.tokenAtStart
                                   ELSE call.installed[n - 1]
                  /\ api.Authorization = Bearer(accessToken)
                  /\ call.sent[n] = Bearer(accessToken)

C3_Witness ==
    \E c \in DOMAIN calls :
        /\ Done(c)
        /\ calls[c].nRejected = 1
        /\ Len(calls[c].frames) = 1
        /\ calls[c].result.type = "ERROR"
        /\ accessToken = calls[c].tokenAtStart

\* C4. Unrecoverable transport error: whenever any response within the call,
\* also one of a repeated attempt, has an unparsable body and a failure
\* status other than 500, handleData throws to its caller.
C4_UnhandledAlwaysThrows ==
    \A c \in DOMAIN calls :
        ( /\ Done(c)
          /\ \E i \in 1..Len(calls[c].frames) : Unhandled(calls[c].frames[i]) )
        => /\ calls[c].outcome = "thrown"
           /\ calls[c].error = "Unhandled Error"

\* C5. handleData throws only in the unrecoverable-transport case: a call all
\* of whose transport calls were answered and that threw has an unparsable
\* body with a failure status other than 500; a payload with an `errors`
\* list, of any length, never ends in a throw.
C5_ThrowsOnlyUnhandled ==
    \A c \in DOMAIN calls :
        ( Done(c) /\ Answered(c) /\ calls[c].outcome = "thrown" )
        => /\ Unhandled(calls[c].frames[Len(calls[c].frames)])
           /\ calls[c].error = "Unhandled Error"

\* C6. Classification rule: without a refresh, for a response that is not
\* the unrecoverable case, handleData returns ERROR iff the status is a
\* failure or the parsed payload has an `errors` field, and SUCCESS with the
\* parsed payload as data otherwise.
C6_ClassificationRule ==
    \A c \in DOMAIN calls :
        LET call == calls[c]
            response == call.frames[1]
            failure == \/ ~ok(response)
                       \/ /\ response.body.parsable
                          /\ "errors" \in DOMAIN response.body.json
        IN  ( /\ Done(c) /\ Len(call.frames) = 1 /\ call.installed = <<>>
              /\ ~Unhandled(response) )
            => /\ call.outcome = "returned"
               /\ call.result.type = "ERROR" <=> failure
               /\ call.result.type = "SUCCESS" <=> ~failure
               /\ call.result.type = "SUCCESS" => call.result.data = json(response)

\* C7. Unparsable body that is not fatal: with status 500 handleData returns
\* ERROR with code 500 and error null; with a success status it returns
\* SUCCESS with data null; neither throws.
C7_UnparsableNotFatal ==
    \A c \in DOMAIN calls :
        LET call == calls[c]
            response == call.frames[Len(call.frames)]
        IN  ( Done(c) /\ Answered(c) /\ ~response.body.parsable )
            => /\ response.status = 500
                  => /\ call.outcome = "returned"
                     /\ call.result.type = "ERROR"
                     /\ call.result.code = 500
                     /\ call.result.error = NullJson
                     /\ call.result.response = response
               /\ ok(response)
                  => /\ call.outcome = "returned"
                     /\ call.result.type = "SUCCESS"
                     /\ call.result.data = NullJson
                     /\ call.result.code = response.status
                     /\ call.result.response = response

C7_Witness ==
    \E c \in DOMAIN calls :
        /\ Done(c)
        /\ calls[c].frames # <<>>
        /\ calls[c].frames[Len(calls[c].frames)].body = Unparsable
        /\ calls[c].frames[Len(calls[c].frames)].status = 500
        /\ calls[c].result.type = "ERROR"

\* the responses after which the code invokes the refresh callback
RefreshPoints(call) ==
    {i \in 1..Len(call.frames) :
        /\ i < Len(call.frames) \/ call.pc # "json"
        /\ ~ok(call.frames[i]) \/ Kind(call.frames[i]) # "none"
        /\ AsksRefresh(call.frames[i])
        /\ getToken
        /\ i - 1 < 2}

\* C8. The refresh callback is invoked only after a response classified
\* ERROR whose first error is "expired_token" or "invalid_token", with a
\* callback supplied and fewer than 2 retries made; a call whose first
\* response is anything else, or whose client has no callback, makes exactly
\* one transport call, never invokes the callback and leaves the access token
\* and the Authorization header as they were.
C8_RefreshOnlyWhenDue ==
    \A c \in DOMAIN calls :
        LET call == calls[c] IN
        /\ call.nGetToken = Cardinality(RefreshPoints(call))
        /\ call.pc = "getToken" => Len(call.frames) \in RefreshPoints(call)
        /\ ( /\ Done(c) /\ Len(call.frames) >= 1
             /\ ~(getToken /\ AsksRefresh(call.frames[1])) )
           => /\ Len(call.sent) = 1
              /\ Len(call.frames) = 1
              /\ call.nGetToken = 0
              /\ call.installed = <<>>
              /\ accessToken = call.tokenAtStart
              /\ api.Authorization = Bearer(call.tokenAtStart)

C8_Witness ==
    \E c \in DOMAIN calls :
        /\ Done(c) /\ getToken
        /\ Len(calls[c].frames) = 1
        /\ calls[c].frames[1].body.parsable
        /\ hasKey(json(calls[c].frames[1]), "errors")
        /\ Len(json(calls[c].frames[1]).errors) = 2
        /\ json(calls[c].frames[1]).errors[1].errorType = "validation"
        /\ json(calls[c].frames[1]).errors[2].errorType = "expired_token"
        /\ calls[c].outcome = "returned"

\* C9. ApiResult variant invariant: a returned result is either SUCCESS with
\* isSuccess = TRUE and a data field and no error field, or ERROR with
\* isSuccess = FALSE and an error field (a FitbitError or null) and no data
\* field; both carry code, response and headers.
C9_VariantInvariant ==
    \A c \in DOMAIN calls :
        LET result == calls[c].result
            common == {"type", "isSuccess", "code", "response", "headers"}
        IN  /\ calls[c].outcome = "returned" <=> result # NoResult
            /\ calls[c].outcome = "returned"
               => /\ \/ /\ result.type = "SUCCESS"
                        /\ result.isSuccess = TRUE
                        /\ DOMAIN result = common \cup {"data"}
                     \/ /\ result.type = "ERROR"
                        /\ result.isSuccess = FALSE
                        /\ DOMAIN result = common \cup {"error"}
                        /\ \/ result.error = NullJson
                           \/ "errors" \in DOMAIN result.error
                  /\ result.code = result.response.status
                  /\ result.response \in {calls[c].frames[i] : i \in 1..Len(calls[c].frames)}
                  /\ DOMAIN result.headers = {"content-type", "x-request-id"}
                  /\ result.headers["x-request-id"] = result.response.id

C9_Witness ==
    \E c \in DOMAIN calls :
        /\ calls[c].outcome = "returned"
        /\ calls[c].result.type = "ERROR"
        /\ calls[c].result.error # NullJson
        /\ calls[c].result.code = 200
        /\ Len(calls[c].frames) = 2

\* a step in which call c issues a request again: it starts where the
\* refresh callback is pending after a failing response that asked for a
\* refresh, installs the callback's token as access token and header, and
\* issues the same dataCall with that header
RetryStep(c) ==
    ( calls[c].sent # <<>> /\ Len(calls'[c].sent) > Len(calls[c].sent) )
    => /\ calls[c].pc = "getToken"
       /\ Len(calls[c].frames) = Len(calls[c].sent)
       /\ AsksRefresh(calls[c].frames[Len(calls[c].frames)])
       /\ ~Succeeds(calls[c].frames[Len(calls[c].frames)])
       /\ accessToken' # accessToken
       /\ calls'[c].installed = Append(calls[c].installed, accessToken')
       /\ api'.Authorization = Bearer(accessToken')
       /\ calls'[c].sent = Append(calls[c].sent, Bearer(accessToken'))
       /\ calls'[c].dataCall = calls[c].dataCall
       /\ calls'[c].frames = calls[c].frames
       /\ calls'[c].pc = "dataCall"

\* C23. Ordering inside a retry: within one handleData call every repeated
\* request follows a failing response and the completion of the refresh
\* callback, is issued with the newly installed token (never before the
\* install), and repeats the original dataCall.
C23_RetryOrdering == [][\A c \in DOMAIN calls : RetryStep(c)]_vars

C23_Witness ==
    \E c \in DOMAIN calls :
        /\ calls[c].pc = "dataCall"
        /\ calls[c].sent = <<Bearer("token0"), Bearer("token1"), Bearer("token2")>>
        /\ calls[c].installed = <<"token1", "token2">>
        /\ accessToken = "token2"

\* C25. Attempt accounting: a handleData call in which nothing throws makes
\* as many transport calls as refresh callbacks completed plus one, at most
\* 3, and returns the code, response and headers of the last response it
\* received, not those of an earlier failing attempt.
C25_AttemptAccounting ==
    \A c \in DOMAIN calls :
        LET call == calls[c]
            n == Len(call.frames)
        IN  ( /\ Done(c) /\ call.outcome = "returned"
              /\ call.nRejected = 0 /\ call.logged = 0 )
            => /\ Len(call.sent) = Len(call.installed) + 1
               /\ Len(call.installed) = call.nGetToken
               /\ Len(call.sent) <= 3
               /\ n = Len(call.sent)
               /\ call.result.response = call.frames[n]
               /\ call.result.code = call.frames[n].status
               /\ call.result.headers = headers(call.frames[n])
               /\ call.result.headers["x-request-id"] = n

C25_Witness ==
    \E c \in DOMAIN calls :
        /\ Done(c) /\ calls[c].outcome = "returned"
        /\ calls[c].nRejected = 0 /\ calls[c].logged = 0
        /\ Len(calls[c].sent) = 3
        /\ calls[c].frames[1].status = 401
        /\ calls[c].frames[2].status = 200
        /\ calls[c].result.code = 500
        /\ calls[c].result.type = "ERROR"

\* the header is the one made from the token getApiInfo reports
HeaderOfToken == api.Authorization = Bearer(accessToken)

\* a step that changes the token is a call of setAccessToken by the owner,
\* or the install that follows a refresh callback of one call that resolved
TokenChange ==
    accessToken' # accessToken
    => \/ calls' = calls
       \/ \E c \in DOMAIN calls :
             /\ calls[c].pc = "getToken"
             /\ calls'[c].installed = Append(calls[c].installed, accessToken')
             /\ calls'[c].nRejected = calls[c].nRejected
             /\ \A d \in DOMAIN calls \ {c} : calls'[d] = calls[d]

\* C26. Credential consistency: in every state of a client, after
\* construction, after setAccessToken, after any number of refreshes and
\* with interleaved calls, the default Authorization header is "Bearer "
\* with the access token getApiInfo reports, and the token changes only
\* through setAccessToken or a refresh callback that resolved.
C26_CredentialConsistency == []HeaderOfToken /\ [][TokenChange]_vars

C26_Witness ==
    /\ accessToken = "token0"
    /\ calls[1].installed = <<"token1">>
    /\ calls[2].installed = <<"token0">>
    /\ calls[2].sent = <<Bearer("token2"), Bearer("token0")>>
    /\ calls[1].pc = "dataCall"

----------------------------------------------------------------------------
(* Properties of pageGenerator *)

\* the items of the server's pages 1..k, page by page
RECURSIVE ItemsUpTo(_)
ItemsUpTo(k) == IF k = 0 THEN <<>> ELSE ItemsUpTo(k - 1) \o pages[k].sleep

\* no .next() of the walk was rejected
NothingThrown == \A i \in 1..Len(produced) : "threw" \notin DOMAIN produced[i]

\* C10. Page accumulation: when every page fetch of a walk of n pages
\* succeeds, the generator completes with allData equal to the items of
\* pages 1..n in fetch order (none dropped, duplicated or reordered),
\* totalCalls = n and lastResponse the SUCCESS of page n; that state is the
\* value produced with done = TRUE, after the yielded accumulations of the
\* pages before it (a walk of one page yields its only page first).
C10_PageAccumulation ==
    LET n == Len(pages)
        last == IF n = 1 THEN 2 ELSE n
    IN
    ( gen.pc = "completed" /\ gen.lastResponse.type = "SUCCESS" /\ NothingThrown )
    => /\ gen.allData = ItemsUpTo(n)
       /\ \A i \in 1..Len(gen.allData), j \in 1..Len(gen.allData) :
             i < j => \/ gen.allData[i][1] < gen.allData[j][1]
                      \/ /\ gen.allData[i][1] = gen.allData[j][1]
                         /\ gen.allData[i][2] < gen.allData[j][2]
       /\ gen.totalCalls = n
       /\ gen.lastResponse.data = pages[n]
       /\ gen.lastResponse.data.pagination.next = EmptyUrl
       /\ gen.requested = [k \in 1..n |-> k]
       /\ Len(produced) >= last
       /\ produced[last] = IterResult([lastResponse |-> gen.lastResponse,
                                       allData      |-> ItemsUpTo(n),
                                       totalCalls   |-> n], TRUE)
       /\ \A k \in 1..(last - 1) :
             /\ produced[k].done = FALSE
             /\ produced[k].value.allData = ItemsUpTo(k)
             /\ produced[k].value.totalCalls = k
             /\ produced[k].value.lastResponse.data = pages[k]

C10_Witness ==
    /\ gen.pc = "completed"
    /\ gen.lastResponse.type = "SUCCESS"
    /\ NothingThrown
    /\ Len(pages) = 3
    /\ Len(pages[1].sleep) = 2 /\ Len(pages[2].sleep) = 1 /\ Len(pages[3].sleep) = 2
    /\ Len(gen.allData) = 5
    /\ gen.totalCalls = 3

\* C11. Failure mid-walk: when the fetch of page k+1 (k >= 1) is classified
\* ERROR after k successful pages, the generator is completed; its terminal
\* state, produced with done = TRUE, has that ERROR as lastResponse and
\* exactly the items of pages 1..k as allData, and the failing fetch is the
\* last one issued, whatever pulls follow.
C11_FailureMidWalk ==
    LET k == Len(gen.requested) - 1 IN
    ( /\ k >= 1
      /\ gen.pc # "fetch"
      /\ gen.lastResponse.type = "ERROR" )
    => /\ gen.pc = "completed"
       /\ gen.allData = ItemsUpTo(k)
       /\ gen.totalCalls = k + 1
       /\ gen.requested = [i \in 1..(k + 1) |-> i]
       /\ calls[GenCall].pc = "done"
       /\ calls[GenCall].dataCall = PageCall(k + 1)
       /\ calls[GenCall].result = gen.lastResponse
       /\ Len(produced) >= k + 1
       /\ produced[k + 1] = IterResult([lastResponse |-> gen.lastResponse,
                                        allData      |-> ItemsUpTo(k),
                                        totalCalls   |-> k + 1], TRUE)
       /\ \A i \in 1..k : /\ produced[i].done = FALSE
                          /\ produced[i].value.lastResponse.type = "SUCCESS"
                          /\ produced[i].value.allData = ItemsUpTo(i)

C11_Witness ==
    /\ gen.pc = "completed"
    /\ gen.lastResponse.type = "ERROR"
    /\ Len(gen.requested) = 3
    /\ Len(pages) = 3
    /\ Len(gen.allData) = 3
    /\ pulls = MaxPulls
    /\ Len(produced) = MaxPulls

\* the first handleData call of pageGenerator returned an ERROR and no later
\* fetch has settled
FirstFetchFailed ==
    /\ gen.pc \notin {"none", "firstFetch", "rejected"}
    /\ gen.totalCalls <= 1
    /\ gen.lastResponse.type = "ERROR"

\* C12. First-page failure: when the first fetch is classified ERROR, the
\* generator is handed out with that ERROR; the first pull completes it with
\* done = TRUE and the state {lastResponse: that ERROR, allData: empty,
\* totalCalls: 1}; the first fetch stays the only one, and later pulls
\* produce nothing but `undefined`.
C12_FirstPageFailure ==
    FirstFetchFailed
    => /\ gen.requested = <<1>>
       /\ calls[GenCall].pc = "done"
       /\ calls[GenCall].dataCall = PageCall(1)
       /\ calls[GenCall].result = gen.lastResponse
       /\ gen.allData = <<>>
       /\ pulls = 0 => gen.pc = "start" /\ produced = <<>>
       /\ pulls >= 1
          => /\ gen.pc = "completed"
             /\ Len(produced) = pulls
             /\ produced[1] = IterResult([lastResponse |-> gen.lastResponse,
                                          allData      |-> <<>>,
                                          totalCalls   |-> 1], TRUE)
             /\ \A i \in 2..pulls : produced[i] = IterResult(Undefined, TRUE)

C12_Witness ==
    /\ FirstFetchFailed
    /\ pulls = 2
    /\ Len(produced) = 2
    /\ produced[1].done
    /\ produced[1].value.lastResponse.code = 500
    /\ Len(pages) = 2

\* the .next() results that carry a state of the walk
States ==
    {i \in 1..Len(produced) :
        /\ "threw" \notin DOMAIN produced[i]
        /\ produced[i].value # Undefined}

\* C13. A failing state is never an intermediate value: every state produced
\* with done = FALSE has a SUCCESS lastResponse, and a state with an ERROR
\* lastResponse is produced once only, with done = TRUE, as the last state
\* of the walk.
C13_FailingStateIsTerminal ==
    \A i \in States :
        /\ produced[i].done = FALSE => produced[i].value.lastResponse.type = "SUCCESS"
        /\ produced[i].value.lastResponse.type = "ERROR"
           => /\ produced[i].done = TRUE
              /\ \A j \in States : j <= i
              /\ gen.pc = "completed"
              /\ gen.lastResponse = produced[i].value.lastResponse

C13_Witness ==
    /\ Len(produced) = 4
    /\ States = {1, 2, 3}
    /\ produced[1].done = FALSE
    /\ produced[2].done = FALSE
    /\ produced[3].done = TRUE
    /\ produced[3].value.lastResponse.type = "ERROR"
    /\ produced[4] = IterResult(Undefined, TRUE)

\* the page fetches issued so far
Fetches == Len(gen.requested)

\* the fetches issued are covered by the pulls made
PullDriven ==
    /\ Fetches <= IF pulls > 1 THEN pulls ELSE 1
    /\ gen.pc = "firstFetch" => Fetches = 1 /\ pulls = 0 /\ produced = <<>>
    /\ gen.pc = "start" /\ pulls = 0
       => /\ Fetches = 1
          /\ calls[GenCall].pc = "done"
          /\ calls[GenCall].result = gen.lastResponse
    /\ gen.pc = "fetch" => Len(produced) < pulls

\* a step that issues a fetch is the call of pageGenerator, or serves a pull
\* that is made in this step or was waiting
FetchOnPull ==
    Len(gen'.requested) > Fetches
    => /\ Len(gen'.requested) = Fetches + 1
       /\ \/ gen.pc = "none" /\ pulls' = 0
          \/ pulls' = pulls + 1
          \/ pulls' = pulls /\ Len(produced') < pulls

\* C14. Eager first fetch, then pull-driven: the first fetch is issued by
\* pageGenerator and has settled before the generator is handed out; every
\* later fetch is issued in answer to a pull; at every moment the number of
\* fetches issued is at most max(1, pulls), so without further pulls no
\* further fetch is issued.
C14_EagerThenPullDriven == []PullDriven /\ [][FetchOnPull]_vars

C14_Witness ==
    /\ pulls = 3
    /\ Fetches = 3
    /\ gen.pc = "fetch"
    /\ Len(produced) = 2

\* some .next() was answered with done = TRUE
DoneProduced ==
    \E i \in 1..Len(produced) : "threw" \notin DOMAIN produced[i] /\ produced[i].done

\* the last fetch returned a page without a `next` link
Exhausted ==
    /\ gen.lastResponse.type = "SUCCESS"
    /\ gen.lastResponse.data # NullJson
    /\ gen.lastResponse.data.pagination.next = EmptyUrl

\* the last fetch was classified ERROR
Failed == gen.lastResponse.type = "ERROR"

\* the generator is completed only after an empty `next` or an ERROR
EndsOnlyWhenDue == gen.pc = "completed" => Exhausted \/ Failed

\* C15. Termination of the page walk: once the generator is handed out, a
\* consumer that keeps pulling gets done = TRUE in the end, and the walk
\* ends exactly when a fetched page has an empty pagination.next or a fetch
\* is classified ERROR: either of them leads to completion, and the
\* generator is never completed without one of them.
C15_Termination ==
    /\ (gen.pc = "start") ~> DoneProduced
    /\ (gen.pc \notin {"none", "firstFetch", "rejected", "completed"}
        /\ (Exhausted \/ Failed)) ~> (gen.pc = "completed")
    /\ []EndsOnlyWhenDue

\* handleData call c has a transport call, a body or a getToken call pending
InFlight(c) == calls[c].pc \in {"dataCall", "json", "getToken"}

\* the generator awaits a fetch exactly while its handleData call has not
\* been taken up, and that call is the one for the url requested last
OneInFlight ==
    /\ InFlight(GenCall) => gen.pc \in {"firstFetch", "fetch"}
    /\ gen.pc \in {"firstFetch", "fetch"}
       => calls[GenCall].dataCall = PageCall(gen.requested[Len(gen.requested)])
    /\ gen.pc \in {"start", "yield1", "yield2"}
       => /\ calls[GenCall].outcome = "returned"
          /\ calls[GenCall].result = gen.lastResponse

\* a step that issues the fetch of a further page starts from a state where
\* the fetch before it has settled, with its retries, and issues one request
FetchAfterSettled ==
    ( gen.pc # "none" /\ Len(gen'.requested) > Len(gen.requested) )
    => /\ ~InFlight(GenCall)
       /\ calls[GenCall].pc = "done"
       /\ Len(gen'.requested) = Len(gen.requested) + 1
       /\ calls'[GenCall].pc = "dataCall"
       /\ Len(calls'[GenCall].sent) = 1
       /\ calls'[GenCall].dataCall = PageCall(gen'.requested[Len(gen'.requested)])

\* C16. At most one page fetch of a sequence is in flight at any time, also
\* when the consumer calls .next() several times without awaiting: the fetch
\* of a page is issued only after the fetch before it, with any refresh and
\* retry nested in it, has settled.
C16_OneFetchInFlight == []OneInFlight /\ [][FetchAfterSettled]_vars

C16_Witness ==
    /\ gen.pc = "fetch"
    /\ Len(gen.requested) = 2
    /\ pulls = 4
    /\ Len(produced) = 1
    /\ calls[GenCall].pc = "getToken"
    /\ Len(calls[GenCall].frames) = 2

\* the .next() results whose state carries a fetched page
PageStates ==
    {i \in States : /\ produced[i].value.lastResponse.type = "SUCCESS"
                    /\ produced[i].value.lastResponse.data # NullJson}

\* C17. `done` is TRUE when there is no more data to retrieve: the first
\* result that carries the last page (the one whose pagination.next is
\* empty) has done = TRUE, and every result with done = FALSE carries a page
\* with a further page behind it.
C17_DoneWhenNoMoreData ==
    \A i \in PageStates :
        LET page == produced[i].value.lastResponse.data IN
        /\ ( /\ page.pagination.next = EmptyUrl
             /\ \A j \in PageStates : j < i => produced[j].value.lastResponse.data # page )
           => produced[i].done = TRUE
        /\ produced[i].done = FALSE => page.pagination.next # EmptyUrl

\* C18. In every result object the generator produces, totalCalls equals the
\* number of .next() calls made on the generator up to and including the
\* one the object answers.
C18_TotalCallsCountsNext ==
    \A i \in States : produced[i].value.totalCalls = i

\* a step from a completed generator: nothing of the generator or of its
\* handleData call changes, the results given out stay as they are, and a
\* .next() is answered with {value: undefined, done: true}
CompletedStep ==
    gen.pc = "completed"
    => /\ gen' = gen
       /\ calls' = calls
       /\ clientVars' = clientVars
       /\ pulls' = pulls + 1
       /\ produced' = Append(produced, IterResult(Undefined, TRUE))

\* C19. After the sequence has completed (exhausted or ended by an ERROR) it
\* is immutable: a further pull issues no fetch, produces no new state and
\* leaves allData, lastResponse and totalCalls of the terminal state already
\* returned as they are.
C19_ImmutableAfterCompletion == [][CompletedStep]_vars

C19_Witness ==
    /\ gen.pc = "completed"
    /\ Len(produced) = 4
    /\ States = {1, 2}
    /\ produced[2].done = TRUE
    /\ produced[2].value.lastResponse.type = "ERROR"
    /\ produced[2].value.allData = gen.allData
    /\ produced[2].value.totalCalls = 2
    /\ produced[3] = IterResult(Undefined, TRUE)
    /\ produced[4] = IterResult(Undefined, TRUE)

\* the requests call c has issued
Issued(c) == Len(calls[c].sent)

\* a request issued in this step leaves with the header of the token
\* installed last, by whichever call
IssuedWithCurrentHeader ==
    \A c \in DOMAIN calls :
        Len(calls'[c].sent) > Issued(c)
        => /\ Len(calls'[c].sent) = Issued(c) + 1
           /\ calls'[c].sent[Issued(c) + 1] = Bearer(accessToken')
           /\ api'.Authorization = Bearer(accessToken')

\* a step that changes the token is an install by one call, which replaces
\* the header for all; no request of this step carries the replaced token
InstallReplaces ==
    accessToken' # accessToken
    => /\ \E c \in DOMAIN calls :
             calls'[c].installed = Append(calls[c].installed, accessToken')
       /\ api'.Authorization = Bearer(accessToken')
       /\ \A c \in DOMAIN calls :
             Len(calls'[c].sent) > Issued(c)
             => calls'[c].sent[Issued(c) + 1] # Bearer(accessToken)

\* C20. Shared credential under concurrent use: with two handleData calls in
\* flight on one client, once the refresh of one installs a new token every
\* request issued afterwards through the client, first attempts and retries
\* of the other call included, carries the new Authorization header, and
\* none carries the replaced one.
C20_SharedCredential == [][IssuedWithCurrentHeader /\ InstallReplaces]_vars

C20_Witness ==
    /\ calls[1].installed = <<"token1">>
    /\ calls[1].pc = "dataCall"
    /\ calls[1].sent = <<Bearer("token0"), Bearer("token1")>>
    /\ calls[2].tokenAtStart = "token0"
    /\ calls[2].installed = <<"token2">>
    /\ calls[2].pc = "dataCall"
    /\ calls[2].sent = <<Bearer("token0"), Bearer("token2")>>
    /\ api.Authorization = Bearer("token2")

----------------------------------------------------------------------------
(* Properties of the utilities *)

\* the value is no date: a string that parses to nothing, NaN, a Date
\* holding NaN, a DateObj whose year is NaN
NoDate(anyDate) ==
    \/ /\ anyDate.type = "string"
       /\ anyDate.value.chars \notin {"now", "today", "yesterday"}
       /\ anyDate.value.chars \notin DOMAIN ParseTable
    \/ anyDate.type = "number" /\ anyDate.value = NaN
    \/ anyDate.type = "Date" /\ anyDate.value = InvalidDate
    \/ anyDate.type = "object" /\ anyDate.value.y = NaN

\* the date option of a getLogList call
DateOf(opts) == IF "afterDate" \in DOMAIN opts THEN opts.afterDate ELSE opts.beforeDate

DateUtilities == {"toDate", "toDateUtils", "dayAndTime"}

LogLists == {"sleep.getLogList", "activity.getLogList"}

\* C21. Invalid date rejection: toDate (both versions) and dayAndTime given
\* a value that does not resolve to a valid date throw 'Invalid Date' and
\* return nothing, and return a value for every other input; a getLogList
\* call built from such a date throws the same error, issues no transport
\* call, invokes no refresh and leaves the token alone.
C21_InvalidDateRejected ==
    /\ op.name \in DateUtilities
       => IF NoDate(op.input)
          THEN op.result = Thrown("Invalid Date")
          ELSE op.result.outcome = "returned"
    /\ op.name \in LogLists /\ NoDate(DateOf(op.input))
       => /\ op.result = Thrown("Invalid Date")
          /\ gen = NoGen
          /\ calls[GenCall] = IdleCall
          /\ accessToken = InitialToken
          /\ api.Authorization = Bearer(InitialToken)
    /\ op.name \in LogLists /\ op.result.outcome = "called"
       => Len(calls[GenCall].sent) >= 1

C21_Witness ==
    /\ op.name = "sleep.getLogList"
    /\ DOMAIN op.input = {"afterDate", "limit"}
    /\ op.input.afterDate = Number(NaN)
    /\ op.input.limit = Num(101)
    /\ op.result = Thrown("Invalid Date")
    /\ calls[GenCall].sent = <<>>

\* local midnight of day k of the clock's stretch
Midnight(k) == Date(now.cal, StartOf(now.cal, k))

\* C22. Relative tokens: at any instant toDate('today') is local midnight of
\* the current day, toDate('yesterday') is local midnight of the calendar
\* day immediately before it, also across a month or year boundary, and
\* toDate('yesterday') <= toDate('today') <= toDate('now').
C22_RelativeTokens ==
    /\ op.name \in {"toDate", "toDateUtils"} /\ op.input = String("today")
       => op.result = Returned(Midnight(DayOf(now)))
    /\ op.name \in {"toDate", "toDateUtils"} /\ op.input = String("yesterday")
       => op.result = Returned(Midnight(DayOf(now) - 1))
    /\ op.name \in {"toDate", "toDateUtils"} /\ op.input = String("now")
       => op.result = Returned(now)
    /\ toDate(String("yesterday")).value.t <= toDate(String("today")).value.t
    /\ toDate(String("today")).value.t <= toDate(String("now")).value.t
    /\ toDateUtils(String("yesterday")).value.t <= toDateUtils(String("today")).value.t
    /\ toDateUtils(String("today")).value.t <= toDateUtils(String("now")).value.t

\* C24. Cursor order: the first fetch requests the starting url; for every
\* k >= 2 the k-th fetch requests the pagination.next of the (k-1)-th
\* response, which was a SUCCESS, was handed out before and has a next
\* link; the request in flight is the one for the url requested last.
C24_CursorOrder ==
    /\ gen.requested # <<>> => gen.requested[1] = gen.startingUrl
    /\ \A k \in 2..Len(gen.requested) :
          /\ k - 1 \in PageStates
          /\ produced[k - 1].done = FALSE
          /\ produced[k - 1].value.totalCalls = k - 1
          /\ gen.requested[k] = produced[k - 1].value.lastResponse.data.pagination.next
          /\ gen.requested[k] # EmptyUrl
    /\ gen.pc \in {"firstFetch", "fetch"}
       => calls[GenCall].dataCall = PageCall(gen.requested[Len(gen.requested)])

C24_Witness ==
    /\ gen.requested = <<1, 2, 3>>
    /\ gen.pc = "completed"
    /\ Len(produced) = 3
    /\ PageStates = {1, 2, 3}
    /\ produced[3].done = TRUE
    /\ produced[2].value.lastResponse.data.pagination.next = 3

\* the results with a state that this step hands out
NewStates ==
    {i \in (Len(produced) + 1)..Len(produced') :
        /\ "threw" \notin DOMAIN produced'[i]
        /\ produced'[i].value # Undefined}

\* a state handed out in this step counts the page fetches issued up to the
\* one just settled, whatever number of requests that fetch took
CountsFetches ==
    \A i \in NewStates :
        /\ produced'[i].value.totalCalls = Len(gen.requested)
        /\ produced'[i].value.lastResponse = calls[GenCall].result
        /\ Len(calls[GenCall].sent) \in 1..3

\* C27. totalCalls counts page fetches, not transport attempts: every state
\* the generator produces has totalCalls equal to the number of page
\* fetches (top-level handleData calls) issued so far, a failing one
\* included; a fetch that took one or two nested retries adds exactly 1.
C27_TotalCallsCountsFetches ==
    /\ [](gen.totalCalls <= Len(gen.requested))
    /\ [][CountsFetches]_vars

C27_Witness ==
    /\ Len(produced) = 2
    /\ States = {1, 2}
    /\ produced[2].value.totalCalls = 2
    /\ produced[2].value.lastResponse.type = "ERROR"
    /\ produced[2].value.lastResponse = calls[GenCall].result
    /\ Len(calls[GenCall].sent) = 3
    /\ Len(gen.requested) = 2

\* s is an initial part of t
IsPrefix(s, t) == Len(s) <= Len(t) /\ SubSeq(t, 1, Len(s)) = s

\* the results handed out so far are the same after the step
Kept == \A i \in 1..Len(produced) :
            Len(produced') >= i /\ produced'[i] = produced[i]

\* each state's allData begins with the allData of every earlier state
AppendOnly ==
    \A i, j \in States :
        i < j => IsPrefix(produced[i].value.allData, produced[j].value.allData)

Url == op.result.url

\* the first-page request of a getLogList call that went on: its limit is in
\* 1..100, and limit, offset and sort have their defaults where omitted
RequestsInRange ==
    op.name \in LogLists /\ op.result.outcome = "called"
        => /\ Len(calls[GenCall].sent) >= 1
           /\ Url[5] = Text("limit") /\ Url[7].n \in 1..100
           /\ "limit" \notin DOMAIN op.input => Url[7] = Num(100)
           /\ Url[9] = Text("offset")
           /\ "offset" \notin DOMAIN op.input => Url[11] = Num(0)
           /\ Url[17] = Text("sort")
           /\ "sort" \notin DOMAIN op.input
              => Url[19] = Text(IF "afterDate" \in DOMAIN op.input
                                THEN "asc" ELSE "desc")

\* a getLogList call given a limit outside 1..100 threw and fetched nothing
LimitRefused ==
    /\ op.name \in LogLists
    /\ "limit" \in DOMAIN op.input
    /\ op.input.limit.n \notin 1..100
    => /\ op.result.outcome = "thrown"
       /\ gen = NoGen
       /\ calls[GenCall] = IdleCall

\* C29. getLogList limit guard (sleep and activity): a limit outside 1..100
\* makes the call fail before any fetch is issued; an omitted limit is sent
\* as 100 and an omitted offset as 0; every first-page request sent carries
\* a limit in 1..100; sort is 'asc' with afterDate and 'desc' with
\* beforeDate unless given.
C29_LimitGuard == LimitRefused /\ RequestsInRange

\* the entries of the dictionary whose value is neither null nor undefined
Present(dict) == SelectSeq(dict, LAMBDA e : ~nonValue(e.val))

\* key=value for the entries from the k-th on, '?' before the first and '&'
\* before each of the others
RECURSIVE Pairs(_, _)
Pairs(entries, k) ==
    IF k > Len(entries) THEN <<>>
    ELSE <<Text(IF k = 1 THEN "?" ELSE "&"), Text(entries[k].key), Text("="),
           entries[k].val>> \o Pairs(entries, k + 1)

\* the result of the dictToUrlParams call is the pairs of the present entries
PairsOfPresent == op.result = Returned(Pairs(Present(op.input), 1))

\* the shape for a dictionary that is empty or whose first entry is present
FirstPresentShape ==
    /\ op.name = "dictToUrlParams"
    /\ op.input # <<>> => ~nonValue(op.input[1].val)
    => PairsOfPresent

\* the shape for a dictionary whose first entry is absent
FirstAbsentShape ==
    /\ op.name = "dictToUrlParams"
    /\ op.input # <<>>
    /\ nonValue(op.input[1].val)
    => PairsOfPresent

\* C30. dictToUrlParams output shape: the result is the empty string when no
\* entry has a present value, and otherwise starts with '?' and holds one
\* key=value pair per entry whose value is not null or undefined, in key
\* order and separated by '&'; absent entries are skipped and do not change
\* the separators.
C30_UrlParamsShape == FirstPresentShape /\ FirstAbsentShape

====
